---- MODULE Spec2Model ----
(***************************************************************************)
(* ShadowNode (ABI34_0_0ShadowNode.cpp): an immutable-after-seal tree node *)
(* with a copy-on-write children list.                                     *)
(*                                                                         *)
(* Objects are modelled by identity:                                       *)
(*   - a node is an index into `nodes` (allocation order);                 *)
(*   - a children list (the pointee of a SharedShadowNodeSharedList) is a  *)
(*     key of `lists`: 1 is the empty singleton, 2k is the private copy    *)
(*     made by node k in cloneChildrenIfShared, 2k+1 is the list the       *)
(*     caller passed in the fragment that created node k;                  *)
(*   - props, event emitters and local data are small integers, 0 = null.  *)
(***************************************************************************)
EXTENDS Integers, Sequences, FiniteSets, TLC

\* Bounds of the model: the nodes ever constructed, the length of a children
\* list, and the calls made in one run of each specification.
MaxNodes == 3
MaxLen == 2
MaxCalls == 3
MaxCallsCow == 5
MaxCallsPath == 5

\* nullptr, and the zero tag: the values the ?: of the constructors skips.
Null == 0

VARIABLES
  nodes,           \* the ShadowNode objects, in order of construction
  lists,           \* the SharedShadowNodeList objects, by identity
  propsSealed,     \* the Props objects that are sealed
  emitterEnabled,  \* EventEmitter::enabled_ of every event emitter
  last,            \* the last call: operation, arguments, outcome, state before
  calls            \* the number of calls made

vars == <<nodes, lists, propsSealed, emitterEnabled, last, calls>>

Alive == 1..Len(nodes)

---------------------------------------------------------------------------
\* Identity of the children lists.

\* static const auto emptySharedShadowNodeSharedList = make_shared<...>()
emptySharedShadowNodeSharedList == 1

\* The list node n allocates in cloneChildrenIfShared (at most one per node:
\* childrenAreShared_ never becomes true again).
CopyOf(n) == 2 * n

\* The list the caller allocated for the fragment that creates node n.
CallerListOf(n) == 2 * n + 1

CallerLists == {h \in DOMAIN lists : h > 1 /\ h % 2 = 1}

\* const SharedShadowNodeList &getChildren() const { return *children_; }
getChildren(n) == lists[nodes[n].children_]

---------------------------------------------------------------------------
\* Sealable (the base class of ShadowNode and Props).

getSealed(ns, n) == ns[n].sealed_

seal(ns, n) == [ns EXCEPT ![n].sealed_ = TRUE]

\* ensureUnsealed() throws when the object is sealed.
ensureUnsealed(ns, n) == ~getSealed(ns, n)

---------------------------------------------------------------------------
\* Constructors.

\* x ?: y
Elvis(x, y) == IF x # Null THEN x ELSE y

EmptyFragment ==
  [tag |-> Null, rootTag |-> Null, props |-> Null, eventEmitter |-> Null,
   children |-> Null, localData |-> Null]

\* The first constructor taking its children list for its own:
\* childrenAreShared_(false).
ShadowNodeFresh_OwnsChildren(fragment, cloneFunction) ==
  [tag_ |-> fragment.tag,
   rootTag_ |-> fragment.rootTag,
   props_ |-> fragment.props,
   eventEmitter_ |-> fragment.eventEmitter,
   children_ |-> Elvis(fragment.children, emptySharedShadowNodeSharedList),
   localData_ |-> Null,
   cloneFunction_ |-> cloneFunction,
   childrenAreShared_ |-> FALSE,
   revision_ |-> 1,
   sealed_ |-> FALSE]

\* ShadowNode(const ShadowNodeFragment &, const ShadowNodeCloneFunction &)
ShadowNodeFresh(fragment, cloneFunction) ==
  [tag_ |-> fragment.tag,
   rootTag_ |-> fragment.rootTag,
   props_ |-> fragment.props,
   eventEmitter_ |-> fragment.eventEmitter,
   children_ |-> Elvis(fragment.children, emptySharedShadowNodeSharedList),
   localData_ |-> Null,
   cloneFunction_ |-> cloneFunction,
   childrenAreShared_ |-> TRUE,
   revision_ |-> 1,
   sealed_ |-> FALSE]

\* The clone constructor with the Sealable base copied from the source.
ShadowNodeClone_CopiesSealed(sourceShadowNode, fragment) ==
  [tag_ |-> Elvis(fragment.tag, sourceShadowNode.tag_),
   rootTag_ |-> Elvis(fragment.rootTag, sourceShadowNode.rootTag_),
   props_ |-> Elvis(fragment.props, sourceShadowNode.props_),
   eventEmitter_ |-> Elvis(fragment.eventEmitter, sourceShadowNode.eventEmitter_),
   children_ |-> Elvis(fragment.children, sourceShadowNode.children_),
   localData_ |-> Elvis(fragment.localData, sourceShadowNode.localData_),
   cloneFunction_ |-> sourceShadowNode.cloneFunction_,
   childrenAreShared_ |-> TRUE,
   revision_ |-> sourceShadowNode.revision_ + 1,
   sealed_ |-> sourceShadowNode.sealed_]

\* The clone constructor taking the source's revision as it is.
ShadowNodeClone_SameRevision(sourceShadowNode, fragment) ==
  [tag_ |-> Elvis(fragment.tag, sourceShadowNode.tag_),
   rootTag_ |-> Elvis(fragment.rootTag, sourceShadowNode.rootTag_),
   props_ |-> Elvis(fragment.props, sourceShadowNode.props_),
   eventEmitter_ |-> Elvis(fragment.eventEmitter, sourceShadowNode.eventEmitter_),
   children_ |-> Elvis(fragment.children, sourceShadowNode.children_),
   localData_ |-> Elvis(fragment.localData, sourceShadowNode.localData_),
   cloneFunction_ |-> sourceShadowNode.cloneFunction_,
   childrenAreShared_ |-> TRUE,
   revision_ |-> sourceShadowNode.revision_,
   sealed_ |-> FALSE]

\* The clone constructor written as a member-wise copy: the two flags are taken
\* from the source instead of being set afresh.
ShadowNodeClone_CopiesFlags(sourceShadowNode, fragment) ==
  [tag_ |-> Elvis(fragment.tag, sourceShadowNode.tag_),
   rootTag_ |-> Elvis(fragment.rootTag, sourceShadowNode.rootTag_),
   props_ |-> Elvis(fragment.props, sourceShadowNode.props_),
   eventEmitter_ |-> Elvis(fragment.eventEmitter, sourceShadowNode.eventEmitter_),
   children_ |-> Elvis(fragment.children, sourceShadowNode.children_),
   localData_ |-> Elvis(fragment.localData, sourceShadowNode.localData_),
   cloneFunction_ |-> sourceShadowNode.cloneFunction_,
   childrenAreShared_ |-> sourceShadowNode.childrenAreShared_,
   revision_ |-> sourceShadowNode.revision_ + 1,
   sealed_ |-> sourceShadowNode.sealed_]

\* ShadowNode(const ShadowNode &sourceShadowNode, const ShadowNodeFragment &)
ShadowNodeClone(sourceShadowNode, fragment) ==
  [tag_ |-> Elvis(fragment.tag, sourceShadowNode.tag_),
   rootTag_ |-> Elvis(fragment.rootTag, sourceShadowNode.rootTag_),
   props_ |-> Elvis(fragment.props, sourceShadowNode.props_),
   eventEmitter_ |-> Elvis(fragment.eventEmitter, sourceShadowNode.eventEmitter_),
   children_ |-> Elvis(fragment.children, sourceShadowNode.children_),
   localData_ |-> Elvis(fragment.localData, sourceShadowNode.localData_),
   cloneFunction_ |-> sourceShadowNode.cloneFunction_,
   childrenAreShared_ |-> TRUE,
   revision_ |-> sourceShadowNode.revision_ + 1,
   sealed_ |-> FALSE]

---------------------------------------------------------------------------
\* Mutating methods, as functions of the heap h = [nodes, lists].

\* cloneChildrenIfShared with the copy left out: the flag is cleared and the
\* list stays the shared one.
cloneChildrenIfShared_NoCopy(h, n) ==
  [h EXCEPT !.nodes[n].childrenAreShared_ = FALSE]

\* void ShadowNode::cloneChildrenIfShared()
cloneChildrenIfShared(h, n) ==
  IF ~h.nodes[n].childrenAreShared_
    THEN h
    ELSE [nodes |-> [h.nodes EXCEPT ![n].childrenAreShared_ = FALSE,
                                    ![n].children_ = CopyOf(n)],
          lists |-> (CopyOf(n) :> h.lists[h.nodes[n].children_]) @@ h.lists]

\* The body of appendChild after ensureUnsealed().
appendChild(h, n, child) ==
  LET c == cloneChildrenIfShared(h, n)
      nonConstChildren == c.nodes[n].children_
  IN  [c EXCEPT !.lists[nonConstChildren] = Append(@, child)]

\* suggestedIndex < nonConstChildren->size(): the int is converted to the
\* unsigned size_t, so a negative index is above every size.
BelowSize(suggestedIndex, size) == suggestedIndex >= 0 /\ suggestedIndex < size

\* std::replace(first, last, old_value, new_value)
StdReplace(s, oldChild, newChild) ==
  [i \in 1..Len(s) |-> IF s[i] = oldChild THEN newChild ELSE s[i]]

\* replaceChild without the hint: std::replace over the whole list, always.
replaceChild_AlwaysScan(h, n, oldChild, newChild, suggestedIndex) ==
  LET c == cloneChildrenIfShared(h, n)
      nonConstChildren == c.nodes[n].children_
  IN  [c EXCEPT !.lists[nonConstChildren] = StdReplace(@, oldChild, newChild)]

\* replaceChild trusting the hint: an index in range is written without the
\* test of line 126.
replaceChild_HintTrusted(h, n, oldChild, newChild, suggestedIndex) ==
  LET c == cloneChildrenIfShared(h, n)
      nonConstChildren == c.nodes[n].children_
      l == c.lists[nonConstChildren]
  IN  IF /\ suggestedIndex # -1
         /\ BelowSize(suggestedIndex, Len(l))
        THEN [c EXCEPT !.lists[nonConstChildren][suggestedIndex + 1] = newChild]
        ELSE [c EXCEPT !.lists[nonConstChildren] = StdReplace(l, oldChild, newChild)]

\* replaceChild without its cloneChildrenIfShared() call.
replaceChild_NoCopy(h, n, oldChild, newChild, suggestedIndex) ==
  LET nonConstChildren == h.nodes[n].children_
      l == h.lists[nonConstChildren]
  IN  IF /\ suggestedIndex # -1
         /\ BelowSize(suggestedIndex, Len(l))
         /\ l[suggestedIndex + 1] = oldChild
        THEN [h EXCEPT !.lists[nonConstChildren][suggestedIndex + 1] = newChild]
        ELSE [h EXCEPT !.lists[nonConstChildren] = StdReplace(l, oldChild, newChild)]

\* The body of replaceChild after ensureUnsealed(). at() and [] are 0-based.
replaceChild(h, n, oldChild, newChild, suggestedIndex) ==
  LET c == cloneChildrenIfShared(h, n)
      nonConstChildren == c.nodes[n].children_
      l == c.lists[nonConstChildren]
  IN  IF /\ suggestedIndex # -1
         /\ BelowSize(suggestedIndex, Len(l))
         /\ l[suggestedIndex + 1] = oldChild
        THEN [c EXCEPT !.lists[nonConstChildren][suggestedIndex + 1] = newChild]
        ELSE [c EXCEPT !.lists[nonConstChildren] = StdReplace(l, oldChild, newChild)]

\* The body of setLocalData after ensureUnsealed().
setLocalData(h, n, localData) ==
  [h EXCEPT !.nodes[n].localData_ = localData]

---------------------------------------------------------------------------
\* void ShadowNode::sealRecursive() const, on z = [nodes, propsSealed,
\* sealCalls, ret]; the children lists `ls` are only read.
\*
\* sealCalls lists the nodes whose seal() of line 94 ran, in order. `active`
\* holds the receivers of the calls that are on the call stack: a call that
\* finds its receiver unsealed and active would go the way the active call is
\* going, and the recursion would never return (ret = "overflow").

RECURSIVE sealRecursive(_, _, _, _)
RECURSIVE sealChildren(_, _, _, _, _)
RECURSIVE sealRecursive_SealsLast(_, _, _, _)

\* sealRecursive sealing the node after its children instead of before.
sealRecursive_SealsLast(z, ls, n, active) ==
  IF getSealed(z.nodes, n)
    THEN z
    ELSE IF n \in active
      THEN [z EXCEPT !.ret = "overflow"]
      ELSE LET r == sealChildren(z, ls, ls[z.nodes[n].children_], 1, active \cup {n})
           IN  IF r.ret = "overflow"
                 THEN r
                 ELSE [r EXCEPT !.nodes = seal(@, n),
                                !.propsSealed = @ \cup {z.nodes[n].props_},
                                !.sealCalls = Append(@, n)]

sealRecursive(z, ls, n, active) ==
  IF getSealed(z.nodes, n)
    THEN z
    ELSE IF n \in active
      THEN [z EXCEPT !.ret = "overflow"]
      ELSE sealChildren(
             [z EXCEPT !.nodes = seal(@, n),
                       !.propsSealed = @ \cup {z.nodes[n].props_},
                       !.sealCalls = Append(@, n)],
             ls, ls[z.nodes[n].children_], 1, active \cup {n})

\* for (auto child : *children_) child->sealRecursive();
sealChildren(z, ls, children, i, active) ==
  IF i > Len(children) \/ z.ret = "overflow"
    THEN z
    ELSE sealChildren(sealRecursive(z, ls, children[i], active), ls, children,
                      i + 1, active)

---------------------------------------------------------------------------
\* bool ShadowNode::constructAncestorPath(ancestorShadowNode, ancestors) const
\*
\* `this` is the node searched for. `active` holds the ancestorShadowNode
\* arguments of the calls that are on the call stack: the function changes
\* nothing before one of its calls returns true, so a call whose argument is
\* already active repeats an active call exactly and the recursion never
\* returns ("overflow": the stack is exhausted).

RECURSIVE constructAncestorPath(_, _, _, _, _), scanChildren(_, _, _, _, _, _)

constructAncestorPath(h, this, ancestorShadowNode, ancestors, active) ==
  IF this = ancestorShadowNode
    THEN [ret |-> "true", ancestors |-> ancestors]
    ELSE IF ancestorShadowNode \in active
      THEN [ret |-> "overflow", ancestors |-> ancestors]
      ELSE scanChildren(h, this, ancestorShadowNode, 1, ancestors,
                        active \cup {ancestorShadowNode})

\* for (const auto &childShadowNode : *ancestorShadowNode.children_)
scanChildren(h, this, ancestorShadowNode, i, ancestors, active) ==
  LET children == h.lists[h.nodes[ancestorShadowNode].children_]
  IN  IF i > Len(children)
        THEN [ret |-> "false", ancestors |-> ancestors]
        ELSE LET r == constructAncestorPath(h, this, children[i], ancestors, active)
             IN  CASE r.ret = "true" ->
                        [ret |-> "true",
                         ancestors |-> Append(r.ancestors, ancestorShadowNode)]
                   [] r.ret = "overflow" -> r
                   [] OTHER ->
                        scanChildren(h, this, ancestorShadowNode, i + 1,
                                     r.ancestors, active)

---------------------------------------------------------------------------
\* The inputs the operations are called with.

Tags == {1, 2}
PropsIds == {1, 2}
EmitterIds == {1, 2}
LocalDataIds == {1}
CloneFunctions == {1}
Hints == (-2)..MaxLen

\* All sequences over S of length at most k.
RECURSIVE SeqsUpTo(_, _)
SeqsUpTo(S, k) ==
  IF k = 0 THEN {<<>>}
  ELSE LET shorter == SeqsUpTo(S, k - 1)
       IN  shorter \cup {Append(q, x) : q \in shorter, x \in S}

\* The scalar part of the fragments a fresh node is constructed from.
FreshFragments ==
  {[EmptyFragment EXCEPT !.tag = t, !.rootTag = 1, !.props = t, !.eventEmitter = t]
     : t \in {1, 2}}

\* The scalar part of the fragments a node is cloned with: nothing overridden,
\* or one field overridden.
CloneFragments ==
  {EmptyFragment}
    \cup {[EmptyFragment EXCEPT !.tag = 2], [EmptyFragment EXCEPT !.rootTag = 2],
          [EmptyFragment EXCEPT !.props = 2], [EmptyFragment EXCEPT !.eventEmitter = 2],
          [EmptyFragment EXCEPT !.localData = 1]}

---------------------------------------------------------------------------
\* The state.

Heap == [nodes |-> nodes, lists |-> lists]

Pre == [nodes |-> nodes, lists |-> lists, propsSealed |-> propsSealed,
        emitterEnabled |-> emitterEnabled]

\* A call counted, while fewer than k were made.
Step(k) ==
  /\ calls < k
  /\ calls' = calls + 1

Call(op, self, a, b, hint, frag, outcome, ancestors) ==
  [op |-> op, self |-> self, a |-> a, b |-> b, hint |-> hint, frag |-> frag,
   outcome |-> outcome, ancestors |-> ancestors, pre |-> Pre]

Init ==
  /\ nodes = <<>>
  /\ lists = (emptySharedShadowNodeSharedList :> <<>>)
  /\ propsSealed = {}
  /\ emitterEnabled = [e \in EmitterIds |-> FALSE]
  /\ calls = 0
  /\ last = [op |-> "init", self |-> Null, a |-> Null, b |-> Null, hint |-> -1,
             frag |-> EmptyFragment, outcome |-> "ok", ancestors |-> <<>>,
             pre |-> [nodes |-> <<>>,
                      lists |-> (emptySharedShadowNodeSharedList :> <<>>),
                      propsSealed |-> {},
                      emitterEnabled |-> [e \in EmitterIds |-> FALSE]]]

\* The children handles a caller can put in a fragment: none, a list it made
\* earlier, or a list it makes for this call (`fresh`, with contents s).
ChildrenArgs(fresh) == {Null} \cup CallerLists \cup {fresh}

\* new ShadowNode(fragment, cloneFunction)
Construct(f, cloneFunction, children, s) ==
  LET new == Len(nodes) + 1
      fragment == [f EXCEPT !.children = children]
  IN  /\ fragment.props # Null
      /\ lists' = IF children = CallerListOf(new)
                    THEN (children :> s) @@ lists ELSE lists
      /\ nodes' = Append(nodes, ShadowNodeFresh(fragment, cloneFunction))
      /\ last' = Call("ShadowNode", new, Null, Null, -1, fragment, "ok", <<>>)
      /\ UNCHANGED <<propsSealed, emitterEnabled>>

\* source.clone(fragment): the bound clone function constructs the new node with
\* ShadowNode(source, fragment).
Clone(source, f, children, s) ==
  LET new == Len(nodes) + 1
      fragment == [f EXCEPT !.children = children]
  IN  /\ nodes[source].cloneFunction_ # Null
      /\ lists' = IF children = CallerListOf(new)
                    THEN (children :> s) @@ lists ELSE lists
      /\ nodes' = Append(nodes, ShadowNodeClone(nodes[source], fragment))
      /\ last' = Call("clone", source, new, Null, -1, fragment, "ok", <<>>)
      /\ UNCHANGED <<propsSealed, emitterEnabled>>

\* A mutator called on a sealed node: ensureUnsealed() throws before anything
\* is written.
Fault(op, n, a, b, hint) ==
  /\ last' = Call(op, n, a, b, hint, EmptyFragment, "fault", <<>>)
  /\ UNCHANGED <<nodes, lists, propsSealed, emitterEnabled>>

SetHeap(h) ==
  /\ nodes' = h.nodes
  /\ lists' = h.lists

\* appendChild without its ensureUnsealed() call.
AppendChild_NoEnsure(n, child) ==
  /\ Len(getChildren(n)) < MaxLen
  /\ SetHeap(appendChild(Heap, n, child))
  /\ last' = Call("appendChild", n, child, Null, -1, EmptyFragment, "ok", <<>>)
  /\ UNCHANGED <<propsSealed, emitterEnabled>>

\* n.appendChild(child)
AppendChild(n, child) ==
  IF ~ensureUnsealed(nodes, n)
    THEN Fault("appendChild", n, child, Null, -1)
    ELSE /\ Len(getChildren(n)) < MaxLen
         /\ SetHeap(appendChild(Heap, n, child))
         /\ last' = Call("appendChild", n, child, Null, -1, EmptyFragment, "ok", <<>>)
         /\ UNCHANGED <<propsSealed, emitterEnabled>>

\* n.replaceChild(oldChild, newChild, suggestedIndex)
ReplaceChild(n, oldChild, newChild, suggestedIndex) ==
  IF ~ensureUnsealed(nodes, n)
    THEN Fault("replaceChild", n, oldChild, newChild, suggestedIndex)
    ELSE /\ SetHeap(replaceChild(Heap, n, oldChild, newChild, suggestedIndex))
         /\ last' = Call("replaceChild", n, oldChild, newChild, suggestedIndex,
                         EmptyFragment, "ok", <<>>)
         /\ UNCHANGED <<propsSealed, emitterEnabled>>

\* n.setLocalData(localData)
SetLocalData(n, localData) ==
  IF ~ensureUnsealed(nodes, n)
    THEN Fault("setLocalData", n, localData, Null, -1)
    ELSE /\ SetHeap(setLocalData(Heap, n, localData))
         /\ last' = Call("setLocalData", n, localData, Null, -1, EmptyFragment, "ok", <<>>)
         /\ UNCHANGED <<propsSealed, emitterEnabled>>

\* n.seal()
Seal(n) ==
  /\ nodes' = seal(nodes, n)
  /\ last' = Call("seal", n, Null, Null, -1, EmptyFragment, "ok", <<>>)
  /\ UNCHANGED <<lists, propsSealed, emitterEnabled>>

\* n.sealRecursive()
SealRecursive(n) ==
  LET z == sealRecursive([nodes |-> nodes, propsSealed |-> propsSealed,
                          sealCalls |-> <<>>, ret |-> "ok"], lists, n, {})
  IN  /\ nodes' = z.nodes
      /\ propsSealed' = z.propsSealed
      /\ last' = [sealCalls |-> z.sealCalls]
                   @@ Call("sealRecursive", n, Null, Null, -1, EmptyFragment, z.ret, <<>>)
      /\ UNCHANGED <<lists, emitterEnabled>>

\* setMounted written as a mutator: it calls ensureUnsealed() first.
SetMounted_EnsureUnsealed(n, mounted) ==
  IF ~ensureUnsealed(nodes, n)
    THEN Fault("setMounted", n, IF mounted THEN 1 ELSE 0, Null, -1)
    ELSE /\ nodes[n].eventEmitter_ # Null
         /\ emitterEnabled' = [emitterEnabled EXCEPT ![nodes[n].eventEmitter_] = mounted]
         /\ last' = Call("setMounted", n, IF mounted THEN 1 ELSE 0, Null, -1,
                         EmptyFragment, "ok", <<>>)
         /\ UNCHANGED <<nodes, lists, propsSealed>>

\* n.setMounted(mounted): eventEmitter_->setEnabled(mounted)
SetMounted(n, mounted) ==
  /\ nodes[n].eventEmitter_ # Null
  /\ emitterEnabled' = [emitterEnabled EXCEPT ![nodes[n].eventEmitter_] = mounted]
  /\ last' = Call("setMounted", n, IF mounted THEN 1 ELSE 0, Null, -1,
                  EmptyFragment, "ok", <<>>)
  /\ UNCHANGED <<nodes, lists, propsSealed>>

\* n.constructAncestorPath(ancestor, ancestors), the vector holding `entry`.
ConstructAncestorPath(n, ancestor, entry) ==
  LET r == constructAncestorPath(Heap, n, ancestor, entry, {})
  IN  /\ last' = [Call("constructAncestorPath", n, ancestor, Null, -1,
                       EmptyFragment, r.ret, r.ancestors)
                    EXCEPT !.pre = [ancestors |-> entry] @@ Pre]
      /\ UNCHANGED <<nodes, lists, propsSealed, emitterEnabled>>

---------------------------------------------------------------------------
\* Spec: every building operation, from the empty heap.

\* The children argument of a fragment: absent, or a list the caller makes for
\* this call (of at most k children).
NewList == CallerListOf(Len(nodes) + 1)

Constructs(fragments, k) ==
  /\ Len(nodes) < MaxNodes
  /\ \E f \in fragments, cf \in CloneFunctions, c \in ChildrenArgs(NewList),
        s \in SeqsUpTo(Alive, k) :
       /\ (c # NewList => s = <<>>)
       /\ Construct(f, cf, c, s)

Clones(fragments, k) ==
  /\ Len(nodes) < MaxNodes
  /\ \E n \in Alive, f \in fragments, c \in ChildrenArgs(NewList),
        s \in SeqsUpTo(Alive, k) :
       /\ (c # NewList => s = <<>>)
       /\ (c # Null => f = EmptyFragment)
       /\ Clone(n, f, c, s)

Next ==
  \/ Step(MaxCalls) /\ Constructs(FreshFragments, MaxLen)
  \/ Step(MaxCalls) /\ Clones(CloneFragments, MaxLen)
  \/ Step(MaxCalls) /\ \E n \in Alive, c \in Alive : AppendChild(n, c)
  \/ Step(MaxCalls) /\ \E n \in Alive, o \in Alive, c \in Alive, i \in Hints :
                           ReplaceChild(n, o, c, i)
  \/ Step(MaxCalls) /\ \E n \in Alive, d \in LocalDataIds \cup {Null} :
                           SetLocalData(n, d)
  \/ Step(MaxCalls) /\ \E n \in Alive : Seal(n)
  \/ Step(MaxCalls) /\ \E n \in Alive : SealRecursive(n)
  \/ Step(MaxCalls) /\ \E n \in Alive, m \in BOOLEAN : SetMounted(n, m)

Spec == Init /\ [][Next]_vars

---------------------------------------------------------------------------
\* SpecCow: the operations that share, copy and freeze children lists, two
\* calls deeper.

NextCow ==
  \/ Step(MaxCallsCow) /\ Constructs({CHOOSE f \in FreshFragments : f.tag = 1}, 1)
  \/ Step(MaxCallsCow) /\ Clones({EmptyFragment}, 0)
  \/ Step(MaxCallsCow) /\ \E n \in Alive, c \in Alive : AppendChild(n, c)
  \/ Step(MaxCallsCow) /\ \E n \in Alive : Seal(n)
  \/ Step(MaxCallsCow) /\ \E n \in Alive : SealRecursive(n)

SpecCow == Init /\ [][NextCow]_vars

---------------------------------------------------------------------------
\* SpecScenario: the structural-sharing scenario. Three leaves C1, C2, C3
\* (nodes 1..3, tags 2..4) are constructed, then the root R (node 4, tag 1)
\* over a list of leaves, then R is cloned once, and replaceChild is called on
\* R and on its clone with every leaf as old child, C3 as new child and every
\* hint.

ScenarioLeaves == 1..3

ScenarioRoot == Cardinality(ScenarioLeaves) + 1

ScenarioFragment(t) ==
  [EmptyFragment EXCEPT !.tag = t, !.rootTag = 1, !.props = 1, !.eventEmitter = 1]

NextScenario ==
  \/ /\ Len(nodes) < Cardinality(ScenarioLeaves)
     /\ Construct(ScenarioFragment(Len(nodes) + 2), 1, Null, <<>>)
     /\ UNCHANGED calls
  \/ /\ Len(nodes) + 1 = ScenarioRoot
     /\ \E s \in SeqsUpTo(ScenarioLeaves, MaxLen) \ {<<>>} :
          Construct(ScenarioFragment(1), 1, NewList, s)
     /\ UNCHANGED calls
  \/ /\ Len(nodes) = ScenarioRoot
     /\ Clone(ScenarioRoot, EmptyFragment, Null, <<>>)
     /\ UNCHANGED calls
  \/ /\ Len(nodes) >= ScenarioRoot
     /\ \E n \in Alive \ ScenarioLeaves, o \in ScenarioLeaves, i \in (-1)..(MaxLen - 1) :
          ReplaceChild(n, o, Cardinality(ScenarioLeaves), i)
     /\ UNCHANGED calls

SpecScenario == Init /\ [][NextScenario]_vars

---------------------------------------------------------------------------
\* SpecPath: graphs built by the constructor and appendChild, and
\* constructAncestorPath called on them with an empty and a non-empty vector.

NextPath ==
  \/ Step(MaxCallsPath) /\ Constructs({CHOOSE f \in FreshFragments : f.tag = 1}, 1)
  \/ Step(MaxCallsPath) /\ \E n \in Alive, c \in Alive : AppendChild(n, c)
  \/ Step(MaxCallsPath) /\ \E n \in Alive, a \in Alive, entry \in {<<>>, <<1>>} :
                             ConstructAncestorPath(n, a, entry)

SpecPath == Init /\ [][NextPath]_vars

---------------------------------------------------------------------------
\* What the claims speak of.

\* The state before the last call.
pre == last.pre

\* The children sequence node n had before the last call.
preChildren(n) == pre.lists[pre.nodes[n].children_]

\* The nodes that existed before the last call.
PreAlive == DOMAIN pre.nodes

Range(q) == {q[i] : i \in DOMAIN q}

\* The nodes reachable from r through children lists, r included.
RECURSIVE Closure(_)
Closure(S) ==
  LET T == S \cup UNION {Range(getChildren(m)) : m \in S}
  IN  IF T = S THEN S ELSE Closure(T)

ReachableFrom(r) == Closure({r})

Mutators == {"appendChild", "replaceChild", "setLocalData"}

---------------------------------------------------------------------------
\* C1: a sealed node's children (handle and contents), payload and auxiliary
\* data are, after every call on any node, what they were before the call; so
\* they stay what they were when the node was sealed.
C1_SealedNodeNeverChanges ==
  \A x \in PreAlive :
    pre.nodes[x].sealed_ =>
      /\ nodes[x].children_ = pre.nodes[x].children_
      /\ getChildren(x) = preChildren(x)
      /\ nodes[x].props_ = pre.nodes[x].props_
      /\ nodes[x].localData_ = pre.nodes[x].localData_

\* C2: a node whose children handle is also held by another node has its
\* children-are-shared flag set.
C2_AliasedChildrenAreFlaggedShared ==
  \A n \in Alive, m \in Alive :
    (n # m /\ nodes[n].children_ = nodes[m].children_)
      => nodes[n].childrenAreShared_

\* C3: appendChild(c) on an unsealed node N whose children-are-shared flag is
\* set leaves every other node, and the list N shared, as they were, and N's
\* children are the old sequence followed by c.
C3_AppendToSharedChangesOnlySelf ==
  (/\ last.op = "appendChild"
   /\ last.outcome = "ok"
   /\ pre.nodes[last.self].childrenAreShared_)
    => /\ \A m \in PreAlive \ {last.self} :
            /\ nodes[m] = pre.nodes[m]
            /\ getChildren(m) = preChildren(m)
       /\ lists[pre.nodes[last.self].children_] = preChildren(last.self)
       /\ getChildren(last.self) = Append(preChildren(last.self), last.a)
       /\ Len(nodes) = Len(pre.nodes)

\* C3's case: the appending node shared a non-empty list with another node.
C3_Witness ==
  /\ last.op = "appendChild"
  /\ last.outcome = "ok"
  /\ pre.nodes[last.self].childrenAreShared_
  /\ preChildren(last.self) # <<>>
  /\ \E m \in PreAlive \ {last.self} :
       pre.nodes[m].children_ = pre.nodes[last.self].children_

\* C4: after sealRecursive() on R every node reachable from R, and its payload,
\* is sealed, and a second sealRecursive() on R changes nothing.
C4_SealRecursiveSealsAllReachable ==
  last.op = "sealRecursive" =>
    /\ \A m \in ReachableFrom(last.self) :
         /\ nodes[m].sealed_
         /\ nodes[m].props_ \in propsSealed
    /\ LET z == [nodes |-> nodes, propsSealed |-> propsSealed,
                 sealCalls |-> <<>>, ret |-> "ok"]
       IN  sealRecursive(z, lists, last.self, {}) = z

\* C5: appendChild, replaceChild and setLocalData on a sealed node fault and
\* leave every node, every children list and everything else as it was.
C5_MutatorOnSealedFaults ==
  (last.op \in Mutators /\ pre.nodes[last.self].sealed_)
    => /\ last.outcome = "fault"
       /\ nodes = pre.nodes
       /\ lists = pre.lists
       /\ propsSealed = pre.propsSealed
       /\ emitterEnabled = pre.emitterEnabled

\* C5's case: a mutator was called on a sealed node that still shared its
\* children, and faulted.
C5_Witness ==
  /\ last.op \in Mutators
  /\ last.outcome = "fault"
  /\ pre.nodes[last.self].sealed_
  /\ pre.nodes[last.self].childrenAreShared_

---------------------------------------------------------------------------
\* The hint of the last replaceChild call pointed at oldChild.
HintHit ==
  /\ last.hint # -1
  /\ last.hint >= 0
  /\ last.hint < Len(preChildren(last.self))
  /\ preChildren(last.self)[last.hint + 1] = last.a

\* The positions of q that hold x.
Positions(q, x) == {i \in DOMAIN q : q[i] = x}

\* q with its first x replaced by y.
ReplaceFirst(q, x, y) ==
  IF Positions(q, x) = {} THEN q
  ELSE LET first == CHOOSE i \in Positions(q, x) : \A j \in Positions(q, x) : i <= j
       IN  [q EXCEPT ![first] = y]

\* C6: replaceChild(old, new, hint) on an unsealed node, with the hint absent,
\* out of range or pointing at another element, replaces the first element
\* identical to old and nothing else.
C6_FallbackReplacesFirstMatchOnly ==
  (/\ last.op = "replaceChild"
   /\ last.outcome = "ok"
   /\ ~HintHit)
    => getChildren(last.self) = ReplaceFirst(preChildren(last.self), last.a, last.b)

\* C7: a clone with an empty fragment is a new unsealed node with the source's
\* revision plus one, the source's tag, root tag, payload, event handle,
\* children handle, auxiliary data and clone function, and the shared flag set;
\* the source and everything else are as before.
C7_CloneWithEmptyFragment ==
  (last.op = "clone" /\ last.frag = EmptyFragment)
    => LET source == pre.nodes[last.self]
           new == nodes[last.a]
       IN  /\ last.a = Len(pre.nodes) + 1
           /\ Len(nodes) = last.a
           /\ ~new.sealed_
           /\ new.revision_ = source.revision_ + 1
           /\ new.tag_ = source.tag_
           /\ new.rootTag_ = source.rootTag_
           /\ new.props_ = source.props_
           /\ new.eventEmitter_ = source.eventEmitter_
           /\ new.children_ = source.children_
           /\ new.localData_ = source.localData_
           /\ new.cloneFunction_ = source.cloneFunction_
           /\ new.childrenAreShared_
           /\ \A m \in PreAlive : nodes[m] = pre.nodes[m]
           /\ lists = pre.lists
           /\ propsSealed = pre.propsSealed
           /\ emitterEnabled = pre.emitterEnabled

\* C7's case: the source of the clone was sealed.
C7_Witness ==
  /\ last.op = "clone"
  /\ last.frag = EmptyFragment
  /\ pre.nodes[last.self].sealed_

\* C8: after an accepted replaceChild(old, new) on the clone R' of a root R,
\* every other node, R among them, has the record and the children it had
\* before; the list of R' has the length it had, holds new where an old was
\* replaced and the identical node it held before at every other position; no
\* node was created, and nothing of R' changed other than its children handle
\* and shared flag.
C8_ReplaceChildSharesStructure ==
  (last.op = "replaceChild" /\ last.outcome = "ok" /\ last.self = ScenarioRoot + 1)
    => LET n == last.self
           before == preChildren(n)
           after == getChildren(n)
       IN  /\ Len(nodes) = Len(pre.nodes)
           /\ \A m \in Alive \ {n} :
                /\ nodes[m] = pre.nodes[m]
                /\ getChildren(m) = preChildren(m)
           /\ [nodes[n] EXCEPT !.children_ = pre.nodes[n].children_,
                               !.childrenAreShared_ = pre.nodes[n].childrenAreShared_]
                = pre.nodes[n]
           /\ Len(after) = Len(before)
           /\ \A i \in DOMAIN before :
                \/ after[i] = before[i]
                \/ before[i] = last.a /\ after[i] = last.b
           /\ last.a \in Range(before)
                => \E i \in DOMAIN before : before[i] = last.a /\ after[i] = last.b

\* C8's case: R = [C1, C2] was cloned into R' on the same handle, and
\* R'.replaceChild(C1, C3) left R with [C1, C2] and R' with [C3, C2].
C8_Witness ==
  /\ last.op = "replaceChild"
  /\ last.outcome = "ok"
  /\ last.self = ScenarioRoot + 1
  /\ last.a = 1
  /\ last.b = 3
  /\ pre.nodes[last.self].children_ = pre.nodes[ScenarioRoot].children_
  /\ preChildren(last.self) = <<1, 2>>
  /\ getChildren(ScenarioRoot) = <<1, 2>>
  /\ getChildren(last.self) = <<3, 2>>

\* The vector's elements pushed by the last constructAncestorPath call.
Pushed == SubSeq(last.ancestors, Len(pre.ancestors) + 1, Len(last.ancestors))

\* p is a chain of parents from n's parent up to a, nearest to n first.
ParentChain(p, n, a) ==
  IF n = a
    THEN p = <<>>
    ELSE /\ p # <<>>
         /\ p[Len(p)] = a
         /\ n \in Range(getChildren(p[1]))
         /\ \A i \in 1..(Len(p) - 1) : p[i] \in Range(getChildren(p[i + 1]))

\* C9: constructAncestorPath(N, A) with N reachable from A returns true and
\* pushes, after what the vector held, one chain of parents from N's parent up
\* to A, nearest to N first and A last; nothing when N is A.
C9_AncestorPathFound ==
  (last.op = "constructAncestorPath" /\ last.self \in ReachableFrom(last.a))
    => /\ last.outcome = "true"
       /\ Len(last.ancestors) >= Len(pre.ancestors)
       /\ SubSeq(last.ancestors, 1, Len(pre.ancestors)) = pre.ancestors
       /\ ParentChain(Pushed, last.self, last.a)

\* C10: constructAncestorPath(N, A) with N not reachable from A returns false
\* and leaves the vector as it was on entry; in either case no node and no
\* children list is changed.
C10_AncestorPathNotFound ==
  last.op = "constructAncestorPath"
    => /\ nodes = pre.nodes
       /\ lists = pre.lists
       /\ propsSealed = pre.propsSealed
       /\ last.self \notin ReachableFrom(last.a)
            => /\ last.outcome = "false"
               /\ last.ancestors = pre.ancestors

\* C9 and C10 on the graphs the claims hold on: the search never enters a node
\* it is already searching.
C9_OnTerminatingSearch == last.outcome # "overflow" => C9_AncestorPathFound

C10_OnTerminatingSearch == last.outcome # "overflow" => C10_AncestorPathNotFound

\* C11: replaceChild(old, new, hint) on an unsealed node whose children hold no
\* element identical to old raises no fault and leaves the node with the same
\* children in the same order, whatever the hint.
C11_ReplaceMissingIsNoOp ==
  (/\ last.op = "replaceChild"
   /\ ~pre.nodes[last.self].sealed_
   /\ last.a \notin Range(preChildren(last.self)))
    => /\ last.outcome = "ok"
       /\ getChildren(last.self) = preChildren(last.self)

\* C11's case: old is missing from a non-empty list, new differs from the
\* element the hint points at, and the hint is a valid index.
C11_Witness ==
  /\ last.op = "replaceChild"
  /\ last.outcome = "ok"
  /\ last.a \notin Range(preChildren(last.self))
  /\ last.hint >= 0
  /\ last.hint < Len(preChildren(last.self))
  /\ preChildren(last.self)[last.hint + 1] # last.b

\* C12: a freshly constructed node has revision 1, a clone has its source's
\* revision plus one (so more than its source's), and no call changes the
\* revision, tag or root tag of a node that existed before it.
C12_RevisionCountsClones ==
  /\ last.op = "ShadowNode" => nodes[last.self].revision_ = 1
  /\ last.op = "clone" =>
       /\ nodes[last.a].revision_ = pre.nodes[last.self].revision_ + 1
       /\ nodes[last.a].revision_ > nodes[last.self].revision_
  /\ \A m \in PreAlive :
       /\ nodes[m].revision_ = pre.nodes[m].revision_
       /\ nodes[m].tag_ = pre.nodes[m].tag_
       /\ nodes[m].rootTag_ = pre.nodes[m].rootTag_

\* C12's case: the clone of a clone, third in its chain.
C12_Witness ==
  /\ last.op = "clone"
  /\ pre.nodes[last.self].revision_ = 2
  /\ nodes[last.a].revision_ = 3

\* C13: replaceChild(old, new, hint) on an unsealed node, with the hint a valid
\* index whose element is identical to old, replaces the element at that index
\* and leaves every other position as it was, also the positions holding old.
C13_HintReplacesThatIndexOnly ==
  (/\ last.op = "replaceChild"
   /\ last.outcome = "ok"
   /\ HintHit)
    => getChildren(last.self) = [preChildren(last.self) EXCEPT ![last.hint + 1] = last.b]

\* C13's case: the hint pointed at old, another position held old too, and new
\* is another node.
C13_Witness ==
  /\ last.op = "replaceChild"
  /\ last.outcome = "ok"
  /\ HintHit
  /\ last.a # last.b
  /\ \E i \in DOMAIN preChildren(last.self) :
       i # last.hint + 1 /\ preChildren(last.self)[i] = last.a

\* C14: a node is unsealed when it is created, by the constructor or by a clone
\* (also of a sealed source), and a node that was sealed before a call is
\* sealed after it, whatever the call.
C14_SealedIsOneDirectional ==
  /\ \A m \in Alive \ PreAlive : ~getSealed(nodes, m)
  /\ \A m \in PreAlive : getSealed(pre.nodes, m) => getSealed(nodes, m)

\* C14's case: a sealed node was cloned; it is still sealed and its clone is
\* a new node.
C14_Witness ==
  /\ last.op = "clone"
  /\ getSealed(pre.nodes, last.self)
  /\ getSealed(nodes, last.self)
  /\ last.a \in Alive \ PreAlive

\* C15: after an accepted appendChild on a node N, no other node holds N's
\* children handle; and when N had appended before (its shared flag was
\* clear), N's handle is the one it had before the call. Clones of N may have
\* been made between the appends.
C15_AppendOwnsItsHandle ==
  (last.op = "appendChild" /\ last.outcome = "ok")
    => /\ \A m \in Alive \ {last.self} :
            nodes[m].children_ # nodes[last.self].children_
       /\ ~pre.nodes[last.self].childrenAreShared_
            => nodes[last.self].children_ = pre.nodes[last.self].children_

\* C16: the event emitter of a clone is the event emitter of its source,
\* whatever fragment the clone is made with.
C16_CloneKeepsEventEmitter ==
  last.op = "clone"
    => nodes[last.a].eventEmitter_ = pre.nodes[last.self].eventEmitter_

\* C17: setMounted(b) returns normally on sealed and on unsealed nodes, makes
\* the enabled state of the node's event emitter b, and changes nothing else:
\* no other event emitter, no node (sealed flag, children handle, payload,
\* auxiliary data, revision, shared flag), no children list, no payload's seal.
C17_SetMountedOnlyEnables ==
  last.op = "setMounted"
    => /\ last.outcome = "ok"
       /\ emitterEnabled =
            [pre.emitterEnabled EXCEPT ![nodes[last.self].eventEmitter_] = (last.a = 1)]
       /\ nodes = pre.nodes
       /\ lists = pre.lists
       /\ propsSealed = pre.propsSealed

\* C17's case: setMounted(true) on a sealed node whose event emitter was
\* disabled.
C17_Witness ==
  /\ last.op = "setMounted"
  /\ getSealed(pre.nodes, last.self)
  /\ last.a = 1
  /\ ~pre.emitterEnabled[nodes[last.self].eventEmitter_]
  /\ emitterEnabled[nodes[last.self].eventEmitter_]

\* C18: the empty list singleton is empty after every call; so a node that
\* held the singleton before an appendChild on another node has no children
\* after it.
C18_EmptySingletonStaysEmpty ==
  /\ lists[emptySharedShadowNodeSharedList] = <<>>
  /\ (last.op = "appendChild" /\ last.outcome = "ok")
       => \A m \in PreAlive \ {last.self} :
            pre.nodes[m].children_ = emptySharedShadowNodeSharedList
              => getChildren(m) = <<>>

\* C18's case: two nodes held the singleton, and appendChild on one of them
\* gave it a child.
C18_Witness ==
  /\ last.op = "appendChild"
  /\ last.outcome = "ok"
  /\ pre.nodes[last.self].children_ = emptySharedShadowNodeSharedList
  /\ getChildren(last.self) # <<>>
  /\ \E m \in PreAlive \ {last.self} :
       /\ pre.nodes[m].children_ = emptySharedShadowNodeSharedList
       /\ pre.nodes[m].revision_ = 1

\* The nodes that hold x in their children list.
Parents(x) == {m \in Alive : x \in Range(getChildren(m))}

\* C19: sealRecursive() returns on every graph the constructors and
\* appendChild have built, also with children shared by several parents and
\* with a node reachable from itself; no node is sealed by it twice, and the
\* nodes it seals are the nodes that went from unsealed to sealed, all of them
\* reachable from the receiver.
C19_SealRecursiveTerminates ==
  last.op = "sealRecursive"
    => /\ last.outcome = "ok"
       /\ \A i \in DOMAIN last.sealCalls, j \in DOMAIN last.sealCalls :
            i # j => last.sealCalls[i] # last.sealCalls[j]
       /\ Range(last.sealCalls)
            = {m \in PreAlive : ~getSealed(pre.nodes, m) /\ getSealed(nodes, m)}
       /\ Range(last.sealCalls) \subseteq ReachableFrom(last.self)

\* C19's case: the receiver is reachable from one of its children, and a node
\* it sealed is a child of two nodes.
C19_Witness ==
  /\ last.op = "sealRecursive"
  /\ last.outcome = "ok"
  /\ \E c \in Range(getChildren(last.self)) : last.self \in ReachableFrom(c)
  /\ \E x \in Range(last.sealCalls) : Cardinality(Parents(x)) >= 2
  /\ Len(last.sealCalls) >= 2

====
